---- MODULE Spec2Model ----
(***************************************************************************)
(* Submission lifecycle and review workflow of the dental coursework       *)
(* backend (routers/students.py, routers/doctor.py, routers/submissions.py,*)
(* routers/feedback.py over the tables of app/models.py).                  *)
(*                                                                         *)
(* Every handler is a pure operator from the database and the upload       *)
(* directory to the new database, the new directory and the HTTP status    *)
(* code of the response; the actions apply the operators.  Python's None   *)
(* is the empty tuple, a present value v is the one-element tuple <<v>>.   *)
(***************************************************************************)
EXTENDS Integers, Sequences, FiniteSets, TLC

VARIABLES Submission, SubmissionFeedback, disk, now, req

vars == <<Submission, SubmissionFeedback, disk, now, req>>

\* ------------------------------------------------------------------------
\* Bounds of the model
\* ------------------------------------------------------------------------
MaxSub == 2
MaxFb == 2
MaxTime == 2
MaxUuid == 3

\* ------------------------------------------------------------------------
\* Optional values
\* ------------------------------------------------------------------------
None == <<>>

Some(v) == <<v>>

SetMax(S) == CHOOSE m \in S : \A x \in S : x <= m

\* INTEGER PRIMARY KEY of SQLite without AUTOINCREMENT: largest rowid plus one.
NextRowId(table) == IF DOMAIN table = {} THEN 1 ELSE SetMax(DOMAIN table) + 1

\* ------------------------------------------------------------------------
\* Fixture: the users table (id -> role) and the assignment registry
\* ------------------------------------------------------------------------
Students == {1, 2}

Doctors == {3, 4}

Admins == {5}

Users == Students \cup Doctors \cup Admins

Role(u) == IF u \in Students THEN "student" ELSE IF u \in Doctors THEN "doctor" ELSE "admin"

\* Assignment.deadline of the one assignment of the fixture (a clock reading).
Deadline == 1

Assignment == [a \in {1} |-> [assignment_id |-> a, created_by |-> 3, deadline |-> Deadline]]

\* assignment ids a request may name: 0 is rejected as non-positive, 2 is missing
AssignmentIdsIn == {0, 1, 2}

\* ------------------------------------------------------------------------
\* Constants of the routers
\* ------------------------------------------------------------------------
VALID_STATUSES == {"Pending", "Accepted", "Rejected", "NeedsRevision"}

REVIEWABLE_STATUSES == {"Accepted", "Rejected", "NeedsRevision"}

\* "ok" of the commit argument: the commit goes through unless a constraint
\* fails; "fail": the database raises an OperationalError at commit.
CommitOutcomes == {"ok", "fail"}

\* str.strip(): leading and trailing whitespace removed
RECURSIVE LStrip(_)
LStrip(s) == IF s # <<>> /\ Head(s) = " " THEN LStrip(Tail(s)) ELSE s

RECURSIVE RStrip(_)
RStrip(s) == IF s # <<>> /\ s[Len(s)] = " " THEN RStrip(SubSeq(s, 1, Len(s) - 1)) ELSE s

Strip(s) == RStrip(LStrip(s))

\* fault seeded for C5: the text is tested without strip()
IsAbsentOrEmpty(t) == t = None \/ t[1] = <<>>

\* `t is None or not t.strip()`
IsBlank(t) == t = None \/ Strip(t[1]) = <<>>

\* ------------------------------------------------------------------------
\* Unit of work of the ORM session (autoflush off: everything is written at
\* commit).  An exception at flush or commit rolls everything back.
\* ------------------------------------------------------------------------
Columns(row) == DOMAIN row

\* UPDATE ... SET <changed columns> WHERE pk = id.  Only the attributes whose
\* value differs from the loaded one are written; no net change, no UPDATE.
\* An UPDATE that matches no row raises StaleDataError.
Changed(loaded, edited) == {c \in Columns(loaded) : edited[c] # loaded[c]}

ApplyUpdate(table, id, loaded, edited) ==
    [table EXCEPT ![id] = [c \in Columns(loaded) |->
        IF c \in Changed(loaded, edited) THEN edited[c] ELSE table[id][c]]]

UpdateErr(table, id, loaded, edited) ==
    IF Changed(loaded, edited) # {} /\ id \notin DOMAIN table THEN "StaleDataError" ELSE ""

FlushUpdate(table, id, loaded, edited) ==
    IF Changed(loaded, edited) = {} \/ id \notin DOMAIN table
    THEN table
    ELSE ApplyUpdate(table, id, loaded, edited)

\* INSERT INTO SubmissionFeedback: doctor_id is NOT NULL, submission_id is
\* UNIQUE.  SQLite does not enforce the foreign key to Submission.
\* fault seeded for C10: the column is declared without unique=True
NoUniqueConstraint(F, row) == TRUE

FeedbackUnique(F, row) == \A f \in DOMAIN F : F[f].submission_id # row.submission_id

InsertFbErr(F, row) ==
    IF row.doctor_id = None \/ ~FeedbackUnique(F, row) THEN "IntegrityError" ELSE ""

InsertFb(F, row) ==
    [f \in DOMAIN F \cup {NextRowId(F)} |-> IF f \in DOMAIN F THEN F[f] ELSE row]

\* first() of the query for the feedback of a submission: None or <<id>>
FeedbackOf(F, sid) ==
    IF \E f \in DOMAIN F : F[f].submission_id = sid
    THEN Some(CHOOSE f \in DOMAIN F :
                 /\ F[f].submission_id = sid
                 /\ \A g \in DOMAIN F : F[g].submission_id = sid => f <= g)
    ELSE None

\* What a handler leaves behind: the tables, the upload directory, the status
\* code of its response and whether its transaction was committed.
Result(S, F, D, code) == [sub |-> S, fb |-> F, disk |-> D, code |-> code, committed |-> FALSE]

Committed(S, F, D, code) == [sub |-> S, fb |-> F, disk |-> D, code |-> code, committed |-> TRUE]

\* ------------------------------------------------------------------------
\* Doctor ownership (doctor.py, submissions.py, feedback.py: the same helper)
\* ------------------------------------------------------------------------
\* hasattr-probing: the first linkage column found decides, none found allows.
\* Assignment carries created_by, which the helper does not look at.
\* the check of a schema whose owner column names another doctor
AssignedToNoDoctor(sub, doctor_user_id) == FALSE

_submission_is_assigned_to_doctor(sub, doctor_user_id) ==
    LET assignment == IF sub.assignment_id \in DOMAIN Assignment
                      THEN Some(Assignment[sub.assignment_id]) ELSE None
    IN  IF "doctor_id" \in Columns(sub) THEN sub["doctor_id"] = doctor_user_id
        ELSE IF "assigned_doctor_id" \in Columns(sub) THEN sub["assigned_doctor_id"] = doctor_user_id
        ELSE IF "reviewer_id" \in Columns(sub) THEN sub["reviewer_id"] = doctor_user_id
        ELSE IF assignment = None THEN TRUE
        ELSE IF "doctor_id" \in Columns(assignment[1]) THEN assignment[1]["doctor_id"] = doctor_user_id
        ELSE IF "reviewer_id" \in Columns(assignment[1])
             THEN assignment[1]["reviewer_id"] = doctor_user_id
        ELSE TRUE

\* ------------------------------------------------------------------------
\* Review: POST /doctor/submissions/{id}/review
\* ------------------------------------------------------------------------
\* fault seeded for C4: the grade rule of Accepted left out
ReviewRuleErrorTextOnly(p) == p.status = "NeedsRevision" /\ IsBlank(p.feedback_text)

\* payload p = [status, grade, feedback_text]
ReviewRuleError(p) ==
    \/ p.status = "Accepted" /\ p.grade = None
    \/ p.status = "NeedsRevision" /\ IsBlank(p.feedback_text)

\* What the handler has loaded when it reaches its try block: the submission
\* row and the feedback row (None, or <<[id, row]>>).
LoadedFeedback(F, sid) ==
    LET fb == FeedbackOf(F, sid)
    IN  IF fb = None THEN None ELSE Some([id |-> fb[1], row |-> F[fb[1]]])

Loaded(S, F, sid) == [sub |-> S[sid], fb |-> LoadedFeedback(F, sid)]

\* status code of the checks before the try block; 0: all passed
review_submission_check(S, u, sid, p) ==
    IF Role(u) # "doctor" THEN 403
    ELSE IF p.status \notin REVIEWABLE_STATUSES THEN 400
    ELSE IF ReviewRuleError(p) THEN 400
    ELSE IF sid \notin DOMAIN S THEN 404
    ELSE IF ~_submission_is_assigned_to_doctor(S[sid], u) THEN 403
    ELSE 0

\* fault seeded for C2: the supplied grade is not written to an existing row
EditedFeedbackTextOnly(row, u, p, setDoctor) ==
    [row EXCEPT !.feedback_text = IF p.feedback_text # None THEN p.feedback_text ELSE @,
                !.doctor_id = IF @ \in {None, Some(0)} /\ setDoctor THEN Some(u) ELSE @]

\* fault seeded for C9: grade and text are written whether supplied or not
EditedFeedbackOverwritesAll(row, u, p, setDoctor) ==
    [row EXCEPT !.feedback_text = p.feedback_text,
                !.grade = p.grade,
                !.doctor_id = IF @ \in {None, Some(0)} /\ setDoctor THEN Some(u) ELSE @]

\* the feedback row as the handler edits it: only the supplied fields
EditedFeedback(row, u, p, setDoctor) ==
    [row EXCEPT !.feedback_text = IF p.feedback_text # None THEN p.feedback_text ELSE @,
                !.grade = IF p.grade # None THEN p.grade ELSE @,
                !.doctor_id = IF @ \in {None, Some(0)} /\ setDoctor THEN Some(u) ELSE @]

NewFeedback(sid, doctor, p) ==
    [submission_id |-> sid, doctor_id |-> doctor,
     feedback_text |-> p.feedback_text, grade |-> p.grade]

\* The flush of a review at commit: UPDATE Submission, then INSERT or UPDATE
\* of SubmissionFeedback, in one transaction.  ld is what was loaded, status
\* the new status, fbNew the row to insert (None: none), fbEdit the edited
\* loaded row (None: no feedback was loaded or touched).
ReviewFlushErr(S, F, sid, ld, status, fbNew, fbEdit, commit) ==
    LET subErr == UpdateErr(S, sid, ld.sub, [ld.sub EXCEPT !.status = status])
        insErr == IF fbNew # None THEN InsertFbErr(F, fbNew[1]) ELSE ""
        updErr == IF fbEdit # None
                  THEN UpdateErr(F, ld.fb[1].id, ld.fb[1].row, fbEdit[1]) ELSE ""
    IN  IF subErr # "" THEN subErr
        ELSE IF insErr # "" THEN insErr
        ELSE IF updErr # "" THEN updErr
        ELSE IF commit = "fail" THEN "OperationalError"
        ELSE ""

ReviewFlushSub(S, sid, ld, status) ==
    FlushUpdate(S, sid, ld.sub, [ld.sub EXCEPT !.status = status])

ReviewFlushFb(F, ld, fbNew, fbEdit) ==
    IF fbNew # None THEN InsertFb(F, fbNew[1])
    ELSE IF fbEdit # None THEN FlushUpdate(F, ld.fb[1].id, ld.fb[1].row, fbEdit[1])
    ELSE F

\* try block of review_submission, run on what was loaded (ld) against the
\* tables as they are at commit; db.refresh(sub) after the commit raises when
\* the row is gone, which is answered 500
review_submission_commit(S, F, D, u, sid, p, ld, commit) ==
    LET fbNew  == IF ld.fb = None THEN Some(NewFeedback(sid, Some(u), p)) ELSE None
        fbEdit == IF ld.fb # None THEN Some(EditedFeedback(ld.fb[1].row, u, p, TRUE)) ELSE None
        err    == ReviewFlushErr(S, F, sid, ld, p.status, fbNew, fbEdit, commit)
    IN  IF err = "IntegrityError" THEN Result(S, F, D, 400)
        ELSE IF err # "" THEN Result(S, F, D, 500)
        ELSE Committed(ReviewFlushSub(S, sid, ld, p.status),
                       ReviewFlushFb(F, ld, fbNew, fbEdit), D,
                       IF sid \in DOMAIN S THEN 200 ELSE 500)

review_submission(S, F, D, u, sid, p, commit) ==
    LET code == review_submission_check(S, u, sid, p)
    IN  IF code # 0 THEN Result(S, F, D, code)
        ELSE review_submission_commit(S, F, D, u, sid, p, Loaded(S, F, sid), commit)

\* ------------------------------------------------------------------------
\* Review: PATCH /submissions/{id}/status
\* ------------------------------------------------------------------------
\* fault seeded for C1: the role check lets every caller through
AnyRoleMayReview(u) == TRUE

_require_admin_or_doctor(u) == Role(u) \in {"admin", "doctor"}

_is_doctor(u) == Role(u) = "doctor"

update_submission_status_check(S, u, sid, p) ==
    IF ~_require_admin_or_doctor(u) THEN 403
    ELSE IF p.status \notin VALID_STATUSES THEN 400
    ELSE IF ReviewRuleError(p) THEN 400
    ELSE IF sid \notin DOMAIN S THEN 404
    ELSE IF _is_doctor(u) /\ ~_submission_is_assigned_to_doctor(S[sid], u) THEN 403
    ELSE 0

\* Session.execute() of the re-fetch after the commit is handed a plain str:
\* the 2.0-style session (future=True, Mapped columns) raises ArgumentError,
\* the handler's `except Exception` answers 500 and its rollback finds
\* nothing left to undo.
RefetchCode == 500

update_submission_status_commit(S, F, D, u, sid, p, ld, commit) ==
    LET has_any_feedback == p.feedback_text # None \/ p.grade # None
        fbNew  == IF has_any_feedback /\ ld.fb = None
                  THEN Some(NewFeedback(sid, IF _is_doctor(u) THEN Some(u) ELSE None, p))
                  ELSE None
        fbEdit == IF has_any_feedback /\ ld.fb # None
                  THEN Some(EditedFeedback(ld.fb[1].row, u, p, _is_doctor(u)))
                  ELSE None
        err    == ReviewFlushErr(S, F, sid, ld, p.status, fbNew, fbEdit, commit)
    IN  IF err = "IntegrityError" THEN Result(S, F, D, 400)
        ELSE IF err # "" THEN Result(S, F, D, 500)
        ELSE Committed(ReviewFlushSub(S, sid, ld, p.status),
                       ReviewFlushFb(F, ld, fbNew, fbEdit), D, RefetchCode)

update_submission_status(S, F, D, u, sid, p, commit) ==
    LET code == update_submission_status_check(S, u, sid, p)
    IN  IF code # 0 THEN Result(S, F, D, code)
        ELSE update_submission_status_commit(S, F, D, u, sid, p, Loaded(S, F, sid), commit)

\* ------------------------------------------------------------------------
\* Uploads (students.py)
\* ------------------------------------------------------------------------
IMAGE_EXTS == {".jpg", ".jpeg", ".png", ".gif", ".bmp", ".webp", ".tif", ".tiff"}

PPT_EXTS == {".ppt", ".pptx"}

PDF_EXTS == {".pdf"}

OTHER_ALLOWED_EXTS == {".doc", ".docx", ".txt", ".rtf", ".zip", ".rar", ".7z",
                       ".xlsx", ".xls", ".csv", ".md"}

ALLOWED_EXTS == IMAGE_EXTS \cup PPT_EXTS \cup PDF_EXTS \cup OTHER_ALLOWED_EXTS

\* megabytes; the upload is read in chunks of one megabyte
MAX_UPLOAD_MB == 50

UPLOAD_DIR == "uploads"

\* A client filename is [dir, stem, ext]: the directory part it was sent with
\* (a tuple of components), and the last component split at its suffix.
\* _safe_name keeps the last component only.
_safe_name(filename) == [stem |-> filename.stem, ext |-> filename.ext]

_infer_file_type(safe_name) ==
    IF safe_name.ext \in IMAGE_EXTS THEN "Image"
    ELSE IF safe_name.ext \in PPT_EXTS THEN "PPT"
    ELSE IF safe_name.ext \in PDF_EXTS THEN "PDF"
    ELSE "Other"

ExtensionRejected(safe_name) == safe_name.ext # "" /\ safe_name.ext \notin ALLOWED_EXTS

\* f"{uuid4().hex}_{safe_name}"
_unique_disk_name(uuid, safe_name) == [uuid |-> uuid, safe_name |-> safe_name]

\* A path is [dir, name]; the public path of an upload is /uploads/<name>.
_public_path_for(unique_name) == [dir |-> UPLOAD_DIR, name |-> unique_name]

\* _save_stream_to_disk: TRUE when the running total passes the ceiling
TooLarge(file) == file.size > MAX_UPLOAD_MB

\* the stream written to dest and left there
SaveKeepsPartialFile(D, file, dest) == D \cup {dest}

\* the disk after _save_stream_to_disk: dest is opened for writing; when the
\* ceiling is passed the partial file is unlinked before the 413 is raised
_save_stream_to_disk(D, file, dest) ==
    IF TooLarge(file) THEN (D \cup {dest}) \ {dest} ELSE D \cup {dest}

\* The directory part of a stored reference /uploads/../<name>, and the
\* directory it leads to: the one that holds UPLOAD_DIR.
ParentRef == "uploads/.."

WorkingDir == "."

\* Path.resolve(): the location a path leads to
Resolve(path) ==
    IF path.dir = ParentRef THEN [dir |-> WorkingDir, name |-> path.name] ELSE path

\* a test that takes every location for one inside the root
AnywhereIsInside(path, root) == TRUE

\* path.is_relative_to(root), both resolved
IsRelativeTo(path, root) == path.dir = root

\* a cleanup that unlinks nothing
RemovesNothing(D, public_path) == D

\* Path(public_path).name looked up under UPLOAD_DIR, unlinked if it is a
\* file inside UPLOAD_DIR
_remove_disk_file_if_local(D, public_path) ==
    LET candidate == [dir |-> UPLOAD_DIR, name |-> public_path.name]
    IN  IF candidate \in D /\ IsRelativeTo(Resolve(candidate), UPLOAD_DIR)
        THEN D \ {candidate} ELSE D

\* `student_notes or None`
OrNone(x) == IF x = None \/ x[1] = <<>> THEN None ELSE x

\* first of the named attributes the row has, as an optional value
RECURSIVE FirstAttr(_, _)
FirstAttr(row, cols) ==
    IF cols = <<>> THEN None
    ELSE IF Head(cols) \in Columns(row) THEN Some(row[Head(cols)])
    ELSE FirstAttr(row, Tail(cols))

\* the check of a schema without window columns
WindowAlwaysOpen(assignment, t) == TRUE

_assignment_time_window_ok(assignment, t) ==
    LET starts == FirstAttr(assignment, <<"start_at", "start_date", "open_at", "available_from">>)
        ends   == FirstAttr(assignment, <<"due_at", "due_date", "deadline", "close_at",
                                          "available_until">>)
    IN  IF starts # None /\ t < starts[1] THEN FALSE
        ELSE IF ends # None /\ t > ends[1] THEN FALSE
        ELSE TRUE

_require_student(u) == Role(u) = "student"

\* INSERT INTO Submission: no constraint beyond the primary key
InsertSub(S, row) ==
    [i \in DOMAIN S \cup {NextRowId(S)} |-> IF i \in DOMAIN S THEN S[i] ELSE row]

\* POST /student/submissions
create_submission_check(u, assignment_id, file, t) ==
    IF ~_require_student(u) THEN 403
    ELSE IF assignment_id <= 0 THEN 400
    ELSE IF assignment_id \notin DOMAIN Assignment THEN 404
    ELSE IF ~_assignment_time_window_ok(Assignment[assignment_id], t) THEN 400
    ELSE IF ExtensionRejected(_safe_name(file.filename)) THEN 400
    ELSE IF TooLarge(file) THEN 413
    ELSE 0

create_submission(S, F, D, t, u, assignment_id, file, student_notes, uuid, commit) ==
    LET safe_name   == _safe_name(file.filename)
        public_path == _public_path_for(_unique_disk_name(uuid, safe_name))
        row == [assignment_id |-> assignment_id, student_id |-> u,
                original_filename |-> safe_name, file_path |-> public_path,
                file_type |-> _infer_file_type(safe_name), submitted_at |-> t,
                status |-> "Pending", student_notes |-> OrNone(student_notes)]
        code   == create_submission_check(u, assignment_id, file, t)
        saved  == _save_stream_to_disk(D, file, public_path)
    IN  IF code = 413 THEN Result(S, F, saved, 413)
        ELSE IF code # 0 THEN Result(S, F, D, code)
        ELSE IF commit = "fail"
        THEN Result(S, F, _remove_disk_file_if_local(saved, public_path), 500)
        ELSE Committed(InsertSub(S, row), F, saved, 201)

\* ------------------------------------------------------------------------
\* Student edits (students.py)
\* ------------------------------------------------------------------------
\* the check that takes every student for the owner
AnyStudentOwns(sub, user_id) == TRUE

_ensure_submission_ownership(sub, user_id) == sub.student_id = user_id

\* fault seeded for C3: every status is editable
EditableInAnyStatus(sub, allow_when_needs_revision) == TRUE

_validate_submission_for_edit(sub, allow_when_needs_revision) ==
    \/ sub.status = "Pending"
    \/ allow_when_needs_revision /\ sub.status = "NeedsRevision"

\* the checks the three student handlers share; 0: all passed
StudentEditCheck(S, u, sid, allow_when_needs_revision) ==
    IF ~_require_student(u) THEN 403
    ELSE IF sid \notin DOMAIN S THEN 404
    ELSE IF ~_ensure_submission_ownership(S[sid], u) THEN 403
    ELSE IF ~_validate_submission_for_edit(S[sid], allow_when_needs_revision) THEN 400
    ELSE 0

\* PATCH /student/submissions/{id}/notes
update_submission_notes_commit(S, F, D, sid, student_notes, ld, commit) ==
    LET edited == [ld.sub EXCEPT !.student_notes = OrNone(student_notes)]
    IN  IF UpdateErr(S, sid, ld.sub, edited) # "" \/ commit = "fail"
        THEN Result(S, F, D, 500)
        ELSE Committed(FlushUpdate(S, sid, ld.sub, edited), F, D,
                       IF sid \in DOMAIN S THEN 200 ELSE 500)

update_submission_notes(S, F, D, u, sid, student_notes, commit) ==
    LET code == StudentEditCheck(S, u, sid, TRUE)
    IN  IF code # 0 THEN Result(S, F, D, code)
        ELSE update_submission_notes_commit(S, F, D, sid, student_notes, Loaded(S, F, sid), commit)

\* PATCH /student/submissions/{id}/file
replace_submission_file_check(S, u, sid, file) ==
    IF StudentEditCheck(S, u, sid, TRUE) # 0 THEN StudentEditCheck(S, u, sid, TRUE)
    ELSE IF ExtensionRejected(_safe_name(file.filename)) THEN 400
    ELSE IF TooLarge(file) THEN 413
    ELSE 0

\* a resubmission that puts the submission back to Pending
ResubmitAsPending(S, F, D, t, sid, file, uuid, ld, commit) ==
    Committed([S EXCEPT ![sid].status = "Pending"], F, D, 200)

\* D holds the new file already: it was streamed to disk before the row is touched
replace_submission_file_commit(S, F, D, t, sid, file, uuid, ld, commit) ==
    LET safe_name  == _safe_name(file.filename)
        new_public == _public_path_for(_unique_disk_name(uuid, safe_name))
        old_public == ld.sub.file_path
        edited == [ld.sub EXCEPT !.original_filename = safe_name,
                                 !.file_path = new_public,
                                 !.file_type = _infer_file_type(safe_name),
                                 !.submitted_at = t]
    IN  IF UpdateErr(S, sid, ld.sub, edited) # "" \/ commit = "fail"
        THEN Result(S, F, _remove_disk_file_if_local(D, new_public), 500)
        ELSE Committed(FlushUpdate(S, sid, ld.sub, edited), F,
                       IF old_public # new_public
                       THEN _remove_disk_file_if_local(D, old_public) ELSE D,
                       200)

replace_submission_file(S, F, D, t, u, sid, file, uuid, commit) ==
    LET code  == replace_submission_file_check(S, u, sid, file)
        saved == _save_stream_to_disk(D, file,
                     _public_path_for(_unique_disk_name(uuid, _safe_name(file.filename))))
    IN  IF code = 413 THEN Result(S, F, saved, 413)
        ELSE IF code # 0 THEN Result(S, F, D, code)
        ELSE replace_submission_file_commit(S, F, saved, t, sid, file, uuid,
                                            Loaded(S, F, sid), commit)

\* db.delete(sub) at flush: the relationship Submission.feedback has no delete
\* cascade, so the session sets submission_id of every child row to NULL,
\* which the NOT NULL column refuses.  A row already gone is not an error.
DeleteSubErr(F, sid, commit) ==
    IF \E f \in DOMAIN F : F[f].submission_id = sid THEN "IntegrityError"
    ELSE IF commit = "fail" THEN "OperationalError"
    ELSE ""

DeleteRow(table, id) == [i \in DOMAIN table \ {id} |-> table[i]]

\* DELETE /student/submissions/{id}
student_delete_submission_commit(S, F, D, sid, ld, commit) ==
    IF DeleteSubErr(F, sid, commit) # ""
    THEN Result(S, F, D, 500)
    ELSE Committed(DeleteRow(S, sid), F, _remove_disk_file_if_local(D, ld.sub.file_path), 204)

student_delete_submission(S, F, D, u, sid, allow_when_needs_revision, commit) ==
    LET code == StudentEditCheck(S, u, sid, allow_when_needs_revision)
    IN  IF code # 0 THEN Result(S, F, D, code)
        ELSE student_delete_submission_commit(S, F, D, sid, Loaded(S, F, sid), commit)

\* GET /student/submissions; query = [status_filter, assignment_id, order_by,
\* order_dir, limit, offset].  The handler builds a filtered and ordered ORM
\* query and then runs a textual SELECT of its own, which selects by
\* student_id, orders by submitted_at descending and pages with limit and
\* offset.  The rows of the SELECT: the caller's submissions whose assignment
\* exists (inner join).
SelectedRows(S, u) ==
    {i \in DOMAIN S : S[i].student_id = u /\ S[i].assignment_id \in DOMAIN Assignment}

\* ORDER BY s.submitted_at DESC: the database may return rows of one
\* submission time in any order
Orderings(S, ids) ==
    {seq \in [1..Cardinality(ids) -> ids] :
        /\ \A j, k \in 1..Cardinality(ids) : j # k => seq[j] # seq[k]
        /\ \A j, k \in 1..Cardinality(ids) :
               j < k => S[seq[j]].submitted_at >= S[seq[k]].submitted_at}

\* LIMIT :limit OFFSET :offset
Page(seq, limit, offset) ==
    SubSeq(seq, offset + 1, IF offset + limit < Len(seq) THEN offset + limit ELSE Len(seq))

\* the answer: a status code and the pages (sequences of submission ids) the
\* database may return
list_my_submissions(S, u, query) ==
    IF ~_require_student(u) THEN [code |-> 403, pages |-> {}]
    ELSE IF query.status_filter # None /\ query.status_filter[1] \notin VALID_STATUSES
    THEN [code |-> 400, pages |-> {}]
    ELSE [code |-> 200,
          pages |-> {Page(seq, query.limit, query.offset) : seq \in Orderings(S, SelectedRows(S, u))}]

\* ------------------------------------------------------------------------
\* Admin delete: DELETE /submissions/{id}
\* ------------------------------------------------------------------------
\* UPLOAD_DIR joined with what follows /uploads/ in the reference, or with
\* its last component when the reference does not start with /uploads/
_disk_path_from_public(public_path) ==
    IF public_path.dir \in {UPLOAD_DIR, ParentRef}
    THEN [dir |-> public_path.dir, name |-> public_path.name]
    ELSE [dir |-> UPLOAD_DIR, name |-> public_path.name]

\* the disk cleanup of the admin's delete
AdminRemoveFile(D, old_public) ==
    LET file == _disk_path_from_public(old_public)
    IN  IF Resolve(file) \in D /\ IsRelativeTo(Resolve(file), UPLOAD_DIR)
        THEN D \ {Resolve(file)} ELSE D

admin_delete_submission_commit(S, F, D, sid, delete_file, ld, commit) ==
    IF DeleteSubErr(F, sid, commit) # ""
    THEN Result(S, F, D, 500)
    ELSE Committed(DeleteRow(S, sid), F,
                   IF delete_file THEN AdminRemoveFile(D, ld.sub.file_path) ELSE D,
                   204)

admin_delete_submission(S, F, D, u, sid, delete_file, commit) ==
    IF Role(u) # "admin" THEN Result(S, F, D, 403)
    ELSE IF sid \notin DOMAIN S THEN Result(S, F, D, 404)
    ELSE admin_delete_submission_commit(S, F, D, sid, delete_file, Loaded(S, F, sid), commit)

\* ------------------------------------------------------------------------
\* Feedback endpoints (feedback.py)
\* ------------------------------------------------------------------------
\* the check without its role and ownership rules
AnyoneMayModifyFeedback(fb, sub, u) == 0

\* fb: None or <<row>>; 0: allowed
_ensure_can_modify_feedback(fb, sub, u) ==
    IF Role(u) # "doctor" THEN 403
    ELSE IF ~_submission_is_assigned_to_doctor(sub, u) THEN 403
    ELSE IF /\ fb # None
            /\ fb[1].doctor_id \notin {None, Some(0)}
            /\ fb[1].doctor_id # Some(u)
            /\ Role(u) # "admin"
         THEN 403
    ELSE 0

FeedbackPayload(body) == [feedback_text |-> body.text, grade |-> body.grade]

\* POST /feedback; body = [submission_id, text, grade]
upsert_feedback_check(S, F, u, body) ==
    IF body.submission_id \notin DOMAIN S THEN 404
    ELSE LET fb == FeedbackOf(F, body.submission_id)
         IN  _ensure_can_modify_feedback(IF fb = None THEN None ELSE Some(F[fb[1]]),
                                         S[body.submission_id], u)

upsert_feedback_commit(S, F, D, u, body, ld, commit) ==
    LET p == FeedbackPayload(body)
        fbNew  == IF ld.fb = None THEN Some(NewFeedback(body.submission_id, Some(u), p)) ELSE None
        fbEdit == IF ld.fb # None THEN Some(EditedFeedback(ld.fb[1].row, u, p, TRUE)) ELSE None
        err == IF fbNew # None /\ InsertFbErr(F, fbNew[1]) # "" THEN "IntegrityError"
               ELSE IF fbEdit # None /\ UpdateErr(F, ld.fb[1].id, ld.fb[1].row, fbEdit[1]) # ""
               THEN "StaleDataError"
               ELSE IF commit = "fail" THEN "OperationalError"
               ELSE ""
    IN  IF err = "IntegrityError" THEN Result(S, F, D, 400)
        ELSE IF err # "" THEN Result(S, F, D, 500)
        ELSE Committed(S, ReviewFlushFb(F, ld, fbNew, fbEdit), D, 201)

upsert_feedback(S, F, D, u, body, commit) ==
    LET code == upsert_feedback_check(S, F, u, body)
    IN  IF code # 0 THEN Result(S, F, D, code)
        ELSE upsert_feedback_commit(S, F, D, u, body, Loaded(S, F, body.submission_id), commit)

\* the checks update_feedback and delete_feedback share
FeedbackByIdCheck(S, F, u, feedback_id) ==
    IF Role(u) # "doctor" THEN 403
    ELSE IF feedback_id \notin DOMAIN F THEN 404
    ELSE IF F[feedback_id].submission_id \notin DOMAIN S THEN 404
    ELSE _ensure_can_modify_feedback(Some(F[feedback_id]), S[F[feedback_id].submission_id], u)

\* PATCH /feedback/{id}; body = [text, grade]; fbLoaded = [id, row]
update_feedback_commit(S, F, D, u, body, fbLoaded, commit) ==
    LET edited == EditedFeedback(fbLoaded.row, u, FeedbackPayload(body), FALSE)
    IN  IF body.text = None /\ body.grade = None THEN Result(S, F, D, 200)
        ELSE IF UpdateErr(F, fbLoaded.id, fbLoaded.row, edited) # "" \/ commit = "fail"
        THEN Result(S, F, D, 500)
        ELSE Committed(S, FlushUpdate(F, fbLoaded.id, fbLoaded.row, edited), D, 200)

update_feedback(S, F, D, u, feedback_id, body, commit) ==
    LET code == FeedbackByIdCheck(S, F, u, feedback_id)
    IN  IF code # 0 THEN Result(S, F, D, code)
        ELSE update_feedback_commit(S, F, D, u, body,
                                [id |-> feedback_id, row |-> F[feedback_id]], commit)

\* DELETE /feedback/{id}
delete_feedback_commit(S, F, D, feedback_id, commit) ==
    IF commit = "fail" THEN Result(S, F, D, 500)
    ELSE Committed(S, DeleteRow(F, feedback_id), D, 204)

delete_feedback(S, F, D, u, feedback_id, commit) ==
    LET code == FeedbackByIdCheck(S, F, u, feedback_id)
    IN  IF code # 0 THEN Result(S, F, D, code)
        ELSE delete_feedback_commit(S, F, D, feedback_id, commit)

\* ------------------------------------------------------------------------
\* Requests the clients send
\* ------------------------------------------------------------------------
Grades == {None, Some(7), Some(9)}

Texts == {None, Some(<<>>), Some(<<" ">>), Some(<<"f">>), Some(<<" ", "g">>)}

\* "Graded" stands for any string that is no status
ReviewPayloads == [status : VALID_STATUSES \cup {"Graded"}, grade : Grades, feedback_text : Texts]

NotesIn == {None, Some(<<>>), Some(<<"n">>)}

ReportPdf == [filename |-> [dir |-> <<>>, stem |-> "report", ext |-> ".pdf"], size |-> 1]

ScanPng == [filename |-> [dir |-> <<"..">>, stem |-> "scan", ext |-> ".png"], size |-> 1]

SetupExe == [filename |-> [dir |-> <<>>, stem |-> "setup", ext |-> ".exe"], size |-> 1]

HugePdf == [filename |-> [dir |-> <<>>, stem |-> "report", ext |-> ".pdf"],
            size |-> MAX_UPLOAD_MB + 1]

FilesIn == {ReportPdf, ScanPng, SetupExe, HugePdf}

\* submission and feedback ids a request may name: one past the bound is an
\* id no row has
SubIdsIn == 1..(MaxSub + 1)

FbIdsIn == 1..(MaxFb + 1)

FeedbackBodies == [submission_id : SubIdsIn, text : Texts, grade : Grades]

FeedbackUpdates == [text : Texts, grade : Grades]

\* the queries of the listing; order_by and order_dir are held to these
\* values by the regex of the query parameters, limit and offset by ge and le
ListQueries ==
    [status_filter : {None} \cup {Some(st) : st \in VALID_STATUSES \cup {"Graded"}},
     assignment_id : {None} \cup {Some(a) : a \in AssignmentIdsIn},
     order_by : {"submitted_at", "status", "assignment_id"},
     order_dir : {"asc", "desc"},
     limit : 1..MaxSub, offset : 0..1]

\* the listing as the client sends it without ordering or paging parameters
DefaultQueries ==
    [status_filter : {None, Some("Pending")}, assignment_id : {None, Some(1)},
     order_by : {"submitted_at"}, order_dir : {"desc"}, limit : {MaxSub}, offset : {0}]

\* the requests that handle blobs when they run in steps
StudentOps == {"update_submission_notes", "replace_submission_file",
               "student_delete_submission", "admin_delete_submission"}

\* uuid4 never repeats a name that is in use: the least uuid that no blob,
\* no row and no request in flight that handles blobs carries
UsedUuids == {d.name.uuid : d \in disk} \cup
             {Submission[i].file_path.name.uuid : i \in DOMAIN Submission} \cup
             {req[s][1].ld.sub.file_path.name.uuid :
                  s \in {x \in DOMAIN req : req[x] # None /\ req[x][1].op \in StudentOps}}

FreeUuids == (1..MaxUuid) \ UsedUuids

FreshUuid == CHOOSE k \in FreeUuids : \A j \in FreeUuids : k <= j

\* ------------------------------------------------------------------------
\* The state machine: one action per endpoint, each handler run to
\* completion.  The parameters of an action are the sets its requests are
\* drawn from.  req holds the requests that are between their queries and
\* their commit, one per worker thread (see the interleaved handlers below).
\* ------------------------------------------------------------------------
\* worker threads of the server that may each hold a request in flight
Sessions == {1, 2}

Init ==
    /\ Submission = <<>>
    /\ SubmissionFeedback = <<>>
    /\ disk = {}
    /\ now = 0
    /\ req = [s \in Sessions |-> None]

\* the row ids of a result stay in the bounds
InBounds(r) == DOMAIN r.sub \subseteq 1..MaxSub /\ DOMAIN r.fb \subseteq 1..MaxFb

Tick ==
    /\ now < MaxTime
    /\ now' = now + 1
    /\ UNCHANGED <<Submission, SubmissionFeedback, disk, req>>

CreateSubmission(callers, files, notesIn, commits) ==
    \E u \in callers, a \in AssignmentIdsIn, file \in files, notes \in notesIn,
       commit \in commits :
        /\ FreeUuids # {}
        /\ LET r == create_submission(Submission, SubmissionFeedback, disk, now,
                                      u, a, file, notes, FreshUuid, commit)
           IN  /\ InBounds(r)
               /\ Submission' = r.sub
               /\ SubmissionFeedback' = r.fb
               /\ disk' = r.disk
               /\ UNCHANGED <<now, req>>

\* a read: the answer goes to the client and the state stays as it is
ListMySubmissions(callers, queries) ==
    \E u \in callers, query \in queries :
        /\ list_my_submissions(Submission, u, query).code \in {200, 400, 403}
        /\ UNCHANGED vars

UpdateSubmissionNotes(callers, notesIn, commits) ==
    \E u \in callers, sid \in 1..MaxSub, notes \in notesIn, commit \in commits :
        LET r == update_submission_notes(Submission, SubmissionFeedback, disk, u, sid, notes, commit)
        IN  /\ InBounds(r)
            /\ Submission' = r.sub
            /\ SubmissionFeedback' = r.fb
            /\ disk' = r.disk
            /\ UNCHANGED <<now, req>>

ReplaceSubmissionFile(callers, files, commits) ==
    \E u \in callers, sid \in 1..MaxSub, file \in files, commit \in commits :
        /\ FreeUuids # {}
        /\ LET r == replace_submission_file(Submission, SubmissionFeedback, disk, now,
                                            u, sid, file, FreshUuid, commit)
           IN  /\ InBounds(r)
               /\ Submission' = r.sub
               /\ SubmissionFeedback' = r.fb
               /\ disk' = r.disk
               /\ UNCHANGED <<now, req>>

StudentDeleteSubmission(callers, commits) ==
    \E u \in callers, sid \in 1..MaxSub, allow \in BOOLEAN, commit \in commits :
        LET r == student_delete_submission(Submission, SubmissionFeedback, disk, u, sid, allow, commit)
        IN  /\ InBounds(r)
            /\ Submission' = r.sub
            /\ SubmissionFeedback' = r.fb
            /\ disk' = r.disk
            /\ UNCHANGED <<now, req>>

AdminDeleteSubmission(callers, deleteFileIn, commits) ==
    \E u \in callers, sid \in 1..MaxSub, delete_file \in deleteFileIn, commit \in commits :
        LET r == admin_delete_submission(Submission, SubmissionFeedback, disk, u, sid, delete_file, commit)
        IN  /\ InBounds(r)
            /\ Submission' = r.sub
            /\ SubmissionFeedback' = r.fb
            /\ disk' = r.disk
            /\ UNCHANGED <<now, req>>

ReviewSubmission(callers, payloads, commits) ==
    \E u \in callers, sid \in 1..MaxSub, p \in payloads, commit \in commits :
        LET r == review_submission(Submission, SubmissionFeedback, disk, u, sid, p, commit)
        IN  /\ InBounds(r)
            /\ Submission' = r.sub
            /\ SubmissionFeedback' = r.fb
            /\ disk' = r.disk
            /\ UNCHANGED <<now, req>>

UpdateSubmissionStatus(callers, payloads, commits) ==
    \E u \in callers, sid \in 1..MaxSub, p \in payloads, commit \in commits :
        LET r == update_submission_status(Submission, SubmissionFeedback, disk, u, sid, p, commit)
        IN  /\ InBounds(r)
            /\ Submission' = r.sub
            /\ SubmissionFeedback' = r.fb
            /\ disk' = r.disk
            /\ UNCHANGED <<now, req>>

UpsertFeedback(callers, bodies, commits) ==
    \E u \in callers, body \in bodies, commit \in commits :
        LET r == upsert_feedback(Submission, SubmissionFeedback, disk, u, body, commit)
        IN  /\ InBounds(r)
            /\ Submission' = r.sub
            /\ SubmissionFeedback' = r.fb
            /\ disk' = r.disk
            /\ UNCHANGED <<now, req>>

UpdateFeedback(callers, bodies, commits) ==
    \E u \in callers, fid \in 1..MaxFb, body \in bodies, commit \in commits :
        LET r == update_feedback(Submission, SubmissionFeedback, disk, u, fid, body, commit)
        IN  /\ InBounds(r)
            /\ Submission' = r.sub
            /\ SubmissionFeedback' = r.fb
            /\ disk' = r.disk
            /\ UNCHANGED <<now, req>>

DeleteFeedback(callers, commits) ==
    \E u \in callers, fid \in 1..MaxFb, commit \in commits :
        LET r == delete_feedback(Submission, SubmissionFeedback, disk, u, fid, commit)
        IN  /\ InBounds(r)
            /\ Submission' = r.sub
            /\ SubmissionFeedback' = r.fb
            /\ disk' = r.disk
            /\ UNCHANGED <<now, req>>

\* ------------------------------------------------------------------------
\* Review workflow: the endpoints that create and delete submissions and
\* those that write a status or a feedback row, called by every role.  One
\* grade and one text are stored and notes stay empty; the properties range
\* over all of Grades, Texts and NotesIn at every state reached.
\* ------------------------------------------------------------------------
StoredGrades == {None, Some(7)}

StoredTexts == {None, Some(<<"f">>)}

StoredPayloads == [status : VALID_STATUSES, grade : StoredGrades, feedback_text : StoredTexts]

\* a student, a doctor and the admin
Callers == {1, 3, 5}

Next ==
    \/ CreateSubmission(Callers, {ReportPdf}, {None}, CommitOutcomes)
    \/ StudentDeleteSubmission(Callers, {"ok"})
    \/ AdminDeleteSubmission(Callers, {TRUE}, {"ok"})
    \/ ReviewSubmission(Callers, StoredPayloads, {"ok"})
    \/ UpdateSubmissionStatus(Callers, StoredPayloads, {"ok"})
    \/ UpsertFeedback(Callers, [submission_id : 1..MaxSub, text : StoredTexts, grade : StoredGrades],
                      {"ok"})
    \/ UpdateFeedback(Callers, [text : StoredTexts, grade : StoredGrades], {"ok"})
    \/ DeleteFeedback(Callers, {"ok"})

Spec == Init /\ [][Next]_vars

\* The students' side with the clock running: uploads of every kind of file
\* before and after the deadline, edits and deletes by the owner and by
\* another student, and the reviews that open and close a submission.
StudentPayloads ==
    {[status |-> "NeedsRevision", grade |-> None, feedback_text |-> Some(<<"f">>)]}

NextStudent ==
    \/ Tick
    \/ CreateSubmission({1}, {ReportPdf, SetupExe, HugePdf}, {None}, CommitOutcomes)
    \/ UpdateSubmissionNotes({1}, {Some(<<"n">>)}, {"ok"})
    \/ ReplaceSubmissionFile({1}, {ScanPng, SetupExe, HugePdf}, CommitOutcomes)
    \/ StudentDeleteSubmission(Students, {"ok"})
    \/ ReviewSubmission({3}, StudentPayloads, {"ok"})
    \/ ListMySubmissions({1}, DefaultQueries)

SpecStudent == Init /\ [][NextStudent]_vars

\* Deletes of submissions whose stored path was altered behind the server's
\* back.  The disk starts with files outside UPLOAD_DIR: one in /etc and one
\* in the directory that holds UPLOAD_DIR.  AlterStoredPath is no endpoint:
\* it is a write to Submission.file_path made directly in the database.
PasswdName == [uuid |-> 0, safe_name |-> [stem |-> "passwd", ext |-> ""]]

OutsideFiles == {[dir |-> "etc", name |-> PasswdName], [dir |-> WorkingDir, name |-> PasswdName]}

\* references that point outside the root: /etc/<name> and /uploads/../<name>,
\* with the name of a file outside or of a blob inside the root
AlteredPaths ==
    [dir : {"etc", ParentRef},
     name : {PasswdName} \cup {f.name : f \in {g \in disk : g.dir = UPLOAD_DIR}}]

InitAltered ==
    /\ Submission = <<>>
    /\ SubmissionFeedback = <<>>
    /\ disk = OutsideFiles
    /\ now = 0
    /\ req = [s \in Sessions |-> None]

AlterStoredPath ==
    \E sid \in DOMAIN Submission, path \in AlteredPaths :
        /\ Submission' = [Submission EXCEPT ![sid].file_path = path]
        /\ UNCHANGED <<SubmissionFeedback, disk, now, req>>

NextAltered ==
    \/ CreateSubmission({1}, {ReportPdf}, {None}, {"ok"})
    \/ AlterStoredPath
    \/ StudentDeleteSubmission({1}, {"ok"})
    \/ AdminDeleteSubmission(Admins, BOOLEAN, {"ok"})
    \/ ReviewSubmission({3}, StudentPayloads, {"ok"})

SpecAltered == InitAltered /\ [][NextAltered]_vars

\* ------------------------------------------------------------------------
\* Interleaved handlers.  The endpoints are plain `def`s, which the server
\* runs in a thread pool, each on a session of its own.  A handler that
\* writes feedback queries the submission, then the feedback row, and writes
\* at commit; the other threads may commit between any two of these steps.
\* A request in flight is [op, pc, u, sid, p, ld]: pc "query" before the
\* feedback query and "commit" after it, ld what it has loaded so far.
\* ------------------------------------------------------------------------
Idle == {s \in Sessions : req[s] = None}

InFlight == {s \in Sessions : req[s] # None}

Start(s, op, u, sid, p) ==
    /\ req' = [req EXCEPT ![s] = Some([op |-> op, pc |-> "query", u |-> u, sid |-> sid, p |-> p,
                                       ld |-> [sub |-> Submission[sid], fb |-> None]])]
    /\ UNCHANGED <<Submission, SubmissionFeedback, disk, now>>

\* review_submission up to its try block
BeginReviewSubmission(callers, payloads) ==
    \E s \in Idle, u \in callers, sid \in 1..MaxSub, p \in payloads :
        /\ review_submission_check(Submission, u, sid, p) = 0
        /\ Start(s, "review_submission", u, sid, p)

\* update_submission_status up to its try block
BeginUpdateSubmissionStatus(callers, payloads) ==
    \E s \in Idle, u \in callers, sid \in 1..MaxSub, p \in payloads :
        /\ update_submission_status_check(Submission, u, sid, p) = 0
        /\ Start(s, "update_submission_status", u, sid, p)

\* upsert_feedback up to its feedback query
BeginUpsertFeedback(callers, payloads) ==
    \E s \in Idle, u \in callers, sid \in 1..MaxSub, p \in payloads :
        /\ sid \in DOMAIN Submission
        /\ Start(s, "upsert_feedback", u, sid, p)

\* the feedback query; upsert_feedback then authorises the caller against the
\* row it found and answers 403 without a write when that fails
QueryFeedback ==
    \E s \in InFlight :
        LET rq == req[s][1]
            fb == LoadedFeedback(SubmissionFeedback, rq.sid)
            refused == /\ rq.op = "upsert_feedback"
                       /\ _ensure_can_modify_feedback(IF fb = None THEN None ELSE Some(fb[1].row),
                                                      rq.ld.sub, rq.u) # 0
        IN  /\ rq.pc = "query"
            /\ req' = [req EXCEPT ![s] =
                          IF refused THEN None
                          ELSE Some([rq EXCEPT !.pc = "commit", !.ld.fb = fb])]
            /\ UNCHANGED <<Submission, SubmissionFeedback, disk, now>>

\* what the try block of a request in flight leaves behind, run on the
\* tables S and F
CommitOn(S, F, D, rq, commit) ==
    IF rq.op = "review_submission"
    THEN review_submission_commit(S, F, D, rq.u, rq.sid, rq.p, rq.ld, commit)
    ELSE IF rq.op = "update_submission_status"
    THEN update_submission_status_commit(S, F, D, rq.u, rq.sid, rq.p, rq.ld, commit)
    ELSE upsert_feedback_commit(S, F, D, rq.u,
                                [submission_id |-> rq.sid, text |-> rq.p.feedback_text,
                                 grade |-> rq.p.grade],
                                rq.ld, commit)

CommitOf(rq, commit) == CommitOn(Submission, SubmissionFeedback, disk, rq, commit)

CommitRequest(commits) ==
    \E s \in InFlight, commit \in commits :
        LET rq == req[s][1]
            r  == CommitOf(rq, commit)
        IN  /\ rq.pc = "commit"
            /\ InBounds(r)
            /\ Submission' = r.sub
            /\ SubmissionFeedback' = r.fb
            /\ disk' = r.disk
            /\ req' = [req EXCEPT ![s] = None]
            /\ UNCHANGED now

\* an upload while the student has no submission on record
CreateOnlySubmission ==
    DOMAIN Submission = {} /\ CreateSubmission({1}, {ReportPdf}, {None}, {"ok"})

\* a doctor and the admin review and write feedback from two threads at the
\* same time, while feedback rows and submissions are deleted
ConcPayloads == [status : {"Rejected"}, grade : {Some(7)}, feedback_text : {None}]

NextConc ==
    \/ CreateSubmission({1}, {ReportPdf}, {None}, {"ok"})
    \/ BeginReviewSubmission({3}, ConcPayloads)
    \/ BeginUpdateSubmissionStatus({3, 5}, ConcPayloads)
    \/ BeginUpsertFeedback({3}, ConcPayloads)
    \/ QueryFeedback
    \/ CommitRequest(CommitOutcomes)
    \/ DeleteFeedback({3}, {"ok"})
    \/ AdminDeleteSubmission(Admins, {TRUE}, {"ok"})

SpecConc == Init /\ [][NextConc]_vars

\* two doctors review one submission from two threads, with different
\* verdicts
VerdictPayloads ==
    {[status |-> "Accepted", grade |-> Some(7), feedback_text |-> None],
     [status |-> "Rejected", grade |-> None, feedback_text |-> Some(<<"f">>)]}

NextReviews ==
    \/ CreateOnlySubmission
    \/ BeginReviewSubmission(Doctors, VerdictPayloads)
    \/ BeginUpdateSubmissionStatus(Doctors, VerdictPayloads)
    \/ QueryFeedback
    \/ CommitRequest({"ok"})

SpecReviews == Init /\ [][NextReviews]_vars

\* ------------------------------------------------------------------------
\* The students' handlers and the admin's delete, interleaved.  Each runs in
\* three steps: its queries and checks (for replace_submission_file also the
\* streaming of the new file to disk), its commit, and the disk cleanup that
\* follows a commit.  A request in flight carries p, the parameters it was
\* called with, and ld.sub, the submission row it loaded.
\* ------------------------------------------------------------------------
\* a handler that unlinks the blob of the row as soon as it has loaded it
StartRemovingOldBlob(s, op, u, sid, p, D) ==
    /\ req' = [req EXCEPT ![s] = Some([op |-> op, pc |-> "commit", u |-> u, sid |-> sid, p |-> p,
                                       ld |-> [sub |-> Submission[sid], fb |-> None]])]
    /\ disk' = D \ {Submission[sid].file_path}
    /\ UNCHANGED <<Submission, SubmissionFeedback, now>>

StartStudent(s, op, u, sid, p, D) ==
    /\ req' = [req EXCEPT ![s] = Some([op |-> op, pc |-> "commit", u |-> u, sid |-> sid, p |-> p,
                                       ld |-> [sub |-> Submission[sid], fb |-> None]])]
    /\ disk' = D
    /\ UNCHANGED <<Submission, SubmissionFeedback, now>>

BeginUpdateSubmissionNotes(threads, callers, notesIn) ==
    \E s \in Idle \cap threads, u \in callers, sid \in 1..MaxSub, notes \in notesIn :
        /\ StudentEditCheck(Submission, u, sid, TRUE) = 0
        /\ StartStudent(s, "update_submission_notes", u, sid, [notes |-> notes], disk)

\* the disk when replace_submission_file reaches its try block: the new file
\* has been streamed to it and the old one is still there
replace_submission_file_begin(D, file, uuid) ==
    _save_stream_to_disk(D, file, _public_path_for(_unique_disk_name(uuid, _safe_name(file.filename))))

BeginReplaceSubmissionFile(threads, callers, files) ==
    \E s \in Idle \cap threads, u \in callers, sid \in 1..MaxSub, file \in files :
        /\ FreeUuids # {}
        /\ replace_submission_file_check(Submission, u, sid, file) = 0
        /\ StartStudent(s, "replace_submission_file", u, sid,
                        [file |-> file, uuid |-> FreshUuid, t |-> now],
                        replace_submission_file_begin(disk, file, FreshUuid))

BeginStudentDeleteSubmission(threads, callers) ==
    \E s \in Idle \cap threads, u \in callers, sid \in 1..MaxSub, allow \in BOOLEAN :
        /\ StudentEditCheck(Submission, u, sid, allow) = 0
        /\ StartStudent(s, "student_delete_submission", u, sid, [allow |-> allow], disk)

BeginAdminDeleteSubmission(threads, callers, deleteFileIn) ==
    \E s \in Idle \cap threads, u \in callers, sid \in 1..MaxSub, delete_file \in deleteFileIn :
        /\ Role(u) = "admin" /\ sid \in DOMAIN Submission
        /\ StartStudent(s, "admin_delete_submission", u, sid, [delete_file |-> delete_file], disk)

\* what the try block of a request in flight leaves behind when nothing else
\* runs before its cleanup
StudentCommitOf(rq, commit) ==
    IF rq.op = "update_submission_notes"
    THEN update_submission_notes_commit(Submission, SubmissionFeedback, disk,
                                        rq.sid, rq.p.notes, rq.ld, commit)
    ELSE IF rq.op = "replace_submission_file"
    THEN replace_submission_file_commit(Submission, SubmissionFeedback, disk, rq.p.t,
                                        rq.sid, rq.p.file, rq.p.uuid, rq.ld, commit)
    ELSE IF rq.op = "student_delete_submission"
    THEN student_delete_submission_commit(Submission, SubmissionFeedback, disk,
                                          rq.sid, rq.ld, commit)
    ELSE admin_delete_submission_commit(Submission, SubmissionFeedback, disk,
                                        rq.sid, rq.p.delete_file, rq.ld, commit)

\* db.commit(): the rows change; after a failure the except clause runs (it
\* removes the file this request wrote) and the request is over
CommitStudentRequest(commits) ==
    \E s \in InFlight, commit \in commits :
        LET rq == req[s][1]
            r  == StudentCommitOf(rq, commit)
        IN  /\ rq.op \in StudentOps /\ rq.pc = "commit"
            /\ InBounds(r)
            /\ Submission' = r.sub
            /\ SubmissionFeedback' = r.fb
            /\ disk' = IF r.committed THEN disk ELSE r.disk
            /\ req' = [req EXCEPT ![s] = IF r.committed /\ rq.op # "update_submission_notes"
                                         THEN Some([rq EXCEPT !.pc = "cleanup"]) ELSE None]
            /\ UNCHANGED now

\* a cleanup that removes the blob the row references at the time it runs
CleanupOfCurrentBlob(rq, D) ==
    IF rq.sid \in DOMAIN Submission THEN D \ {Submission[rq.sid].file_path} ELSE D

\* the file a committed request removes: the blob of the row it loaded
CleanupOf(rq, D) ==
    IF rq.op = "admin_delete_submission"
    THEN IF rq.p.delete_file THEN AdminRemoveFile(D, rq.ld.sub.file_path) ELSE D
    ELSE _remove_disk_file_if_local(D, rq.ld.sub.file_path)

CleanupRequest ==
    \E s \in InFlight :
        LET rq == req[s][1]
        IN  /\ rq.op \in StudentOps /\ rq.pc = "cleanup"
            /\ disk' = CleanupOf(rq, disk)
            /\ req' = [req EXCEPT ![s] = None]
            /\ UNCHANGED <<Submission, SubmissionFeedback, now>>

\* a student's edit or delete in flight while the clock runs, a doctor
\* reviews the submission and the admin deletes it
RacePayloads == {[status |-> "Accepted", grade |-> Some(7), feedback_text |-> None]}

NextRace ==
    \/ Tick
    \/ CreateOnlySubmission
    \/ BeginUpdateSubmissionNotes({1}, {1}, {Some(<<"n">>)})
    \/ BeginReplaceSubmissionFile({1}, {1}, {ScanPng})
    \/ BeginStudentDeleteSubmission({1}, {1})
    \/ CommitStudentRequest(CommitOutcomes)
    \/ CleanupRequest
    \/ ReviewSubmission({3}, RacePayloads, {"ok"})
    \/ AdminDeleteSubmission(Admins, {TRUE}, {"ok"})

SpecRace == Init /\ [][NextRace]_vars

\* replacements and deletes of one submission from two threads
NextBlobs ==
    \/ CreateOnlySubmission
    \/ BeginReplaceSubmissionFile(Sessions, {1}, {ScanPng})
    \/ BeginStudentDeleteSubmission(Sessions, {1})
    \/ BeginAdminDeleteSubmission(Sessions, Admins, BOOLEAN)
    \/ CommitStudentRequest(CommitOutcomes)
    \/ CleanupRequest

SpecBlobs == Init /\ [][NextBlobs]_vars

\* ------------------------------------------------------------------------
\* Properties.  A property ranges over every request the clients can send at
\* every state the specification reaches: r is what the handler would leave
\* behind if the request ran now.
\* ------------------------------------------------------------------------
StatusKept(r) ==
    \A i \in DOMAIN Submission \cap DOMAIN r.sub : r.sub[i].status = Submission[i].status

NoRowAdded(r) == DOMAIN r.sub \subseteq DOMAIN Submission

NewRowsPending(r) == \A i \in DOMAIN r.sub \ DOMAIN Submission : r.sub[i].status = "Pending"

Untouched(r) == r.sub = Submission /\ r.fb = SubmissionFeedback /\ r.disk = disk

\* the requests of the two review endpoints, and what each would leave behind
ReviewRequests == [u : Users, sid : SubIdsIn, p : ReviewPayloads, commit : CommitOutcomes]

RunReview(q) == review_submission(Submission, SubmissionFeedback, disk, q.u, q.sid, q.p, q.commit)

RunStatus(q) ==
    update_submission_status(Submission, SubmissionFeedback, disk, q.u, q.sid, q.p, q.commit)

CreateKeepsStatus ==
    FreeUuids # {} =>
        \A u \in Users, a \in AssignmentIdsIn, file \in FilesIn, notes \in NotesIn,
           commit \in CommitOutcomes :
            LET r == create_submission(Submission, SubmissionFeedback, disk, now,
                                       u, a, file, notes, FreshUuid, commit)
            IN  StatusKept(r) /\ NewRowsPending(r)

StudentOpsKeepStatus ==
    \A u \in Users, sid \in SubIdsIn, commit \in CommitOutcomes :
        /\ \A notes \in NotesIn :
            LET r == update_submission_notes(Submission, SubmissionFeedback, disk,
                                             u, sid, notes, commit)
            IN  StatusKept(r) /\ NoRowAdded(r)
        /\ FreeUuids # {} => \A file \in FilesIn :
            LET r == replace_submission_file(Submission, SubmissionFeedback, disk, now,
                                             u, sid, file, FreshUuid, commit)
            IN  StatusKept(r) /\ NoRowAdded(r)
        /\ \A allow \in BOOLEAN :
            LET r == student_delete_submission(Submission, SubmissionFeedback, disk,
                                               u, sid, allow, commit)
            IN  StatusKept(r) /\ NoRowAdded(r)
        /\ \A delete_file \in BOOLEAN :
            LET r == admin_delete_submission(Submission, SubmissionFeedback, disk,
                                             u, sid, delete_file, commit)
            IN  StatusKept(r) /\ NoRowAdded(r)

FeedbackOpsKeepStatus ==
    \A u \in Users, commit \in CommitOutcomes :
        /\ \A body \in FeedbackBodies :
            upsert_feedback(Submission, SubmissionFeedback, disk, u, body, commit).sub = Submission
        /\ \A fid \in FbIdsIn :
            /\ \A body \in FeedbackUpdates :
                update_feedback(Submission, SubmissionFeedback, disk, u, fid, body, commit).sub
                    = Submission
            /\ delete_feedback(Submission, SubmissionFeedback, disk, u, fid, commit).sub
                    = Submission

\* a review changes a status only if its caller is a doctor or an admin and
\* its transaction was committed
ReviewChangesStatusOnlyIfCommitted(q, r) ==
    /\ DOMAIN r.sub = DOMAIN Submission
    /\ ~StatusKept(r) => r.committed /\ Role(q.u) \in {"doctor", "admin"}

FeedbackRowsOf(F, sid) == {F[f] : f \in {g \in DOMAIN F : F[g].submission_id = sid}}

FeedbackCount(F, sid) == Cardinality({f \in DOMAIN F : F[f].submission_id = sid})

\* what a review leaves in a field of the feedback row: the supplied value,
\* or without one the value the row had (None in a new row)
FieldAfter(F, sid, supplied, field) ==
    IF supplied # None THEN supplied
    ELSE IF FeedbackOf(F, sid) = None THEN None
    ELSE F[FeedbackOf(F, sid)[1]][field]

OneRowCarrying(q, r) ==
    /\ FeedbackCount(r.fb, q.sid) = 1
    /\ \A row \in FeedbackRowsOf(r.fb, q.sid) :
        /\ row.grade = FieldAfter(SubmissionFeedback, q.sid, q.p.grade, "grade")
        /\ row.feedback_text =
               FieldAfter(SubmissionFeedback, q.sid, q.p.feedback_text, "feedback_text")

SuppliesFeedback(p) == p.grade # None \/ p.feedback_text # None

ReviewCommitted(q, r) == r.committed /\ q.p.status \in REVIEWABLE_STATUSES

Closed == {i \in DOMAIN Submission : Submission[i].status \in {"Accepted", "Rejected"}}

Refused(r) == r.code >= 400 /\ ~r.committed /\ Untouched(r)

\* C3: on an Accepted or Rejected submission update_submission_notes,
\* replace_submission_file and the student's delete_submission, called by the
\* owner, are refused whatever the request carries, and the tables and the
\* upload directory stay as they were.
C3_ClosedSubmissionIsFrozen ==
    \A i \in Closed, commit \in CommitOutcomes :
        LET owner == Submission[i].student_id
        IN  /\ \A notes \in NotesIn :
                Refused(update_submission_notes(Submission, SubmissionFeedback, disk,
                                                owner, i, notes, commit))
            /\ FreeUuids # {} => \A file \in FilesIn :
                Refused(replace_submission_file(Submission, SubmissionFeedback, disk, now,
                                                owner, i, file, FreshUuid, commit))
            /\ \A allow \in BOOLEAN :
                Refused(student_delete_submission(Submission, SubmissionFeedback, disk,
                                                  owner, i, allow, commit))

\* an Accepted submission with its feedback row and its blob, whose owner is
\* answered 400 when replacing the file
C3_Witness ==
    \E i \in Closed :
        /\ Submission[i].status = "Accepted"
        /\ FeedbackCount(SubmissionFeedback, i) = 1
        /\ Submission[i].file_path \in disk
        /\ FreeUuids # {}
        /\ replace_submission_file(Submission, SubmissionFeedback, disk, now,
                                   Submission[i].student_id, i, ReportPdf, FreshUuid, "ok").code = 400

ValidationError(r) == r.code = 400 /\ ~r.committed /\ Untouched(r)

\* C4: a doctor's review with target Accepted and no grade is answered 400 by
\* both endpoints, whatever the submission and its feedback, and changes
\* nothing.
C4_AcceptedNeedsGrade ==
    \A q \in ReviewRequests :
        Role(q.u) = "doctor" /\ q.p.status = "Accepted" /\ q.p.grade = None =>
            ValidationError(RunReview(q)) /\ ValidationError(RunStatus(q))

\* a Rejected submission whose feedback holds a grade, offered Accepted
\* without a grade by a doctor
C4_Witness ==
    \E q \in ReviewRequests :
        /\ Role(q.u) = "doctor" /\ q.p.status = "Accepted" /\ q.p.grade = None
        /\ q.sid \in DOMAIN Submission /\ Submission[q.sid].status = "Rejected"
        /\ \E row \in FeedbackRowsOf(SubmissionFeedback, q.sid) : row.grade # None
        /\ RunReview(q).code = 400 /\ RunStatus(q).code = 400

\* the texts of Texts that are absent or hold nothing but blanks
BlankTexts == {t \in Texts : t = None \/ \A k \in 1..Len(t[1]) : t[1][k] = " "}

\* C5: a doctor's review with target NeedsRevision and a text that is absent,
\* empty or whitespace only is answered 400 by both endpoints, whatever the
\* submission and its feedback text, and changes nothing.
C5_NeedsRevisionNeedsText ==
    \A q \in ReviewRequests :
        Role(q.u) = "doctor" /\ q.p.status = "NeedsRevision" /\ q.p.feedback_text \in BlankTexts =>
            ValidationError(RunReview(q)) /\ ValidationError(RunStatus(q))

\* a submission whose feedback holds a text, offered NeedsRevision with a
\* text of one blank by a doctor
C5_Witness ==
    \E q \in ReviewRequests :
        /\ Role(q.u) = "doctor" /\ q.p.status = "NeedsRevision" /\ q.p.feedback_text = Some(<<" ">>)
        /\ \E row \in FeedbackRowsOf(SubmissionFeedback, q.sid) : row.feedback_text # None
        /\ RunReview(q).code = 400 /\ RunStatus(q).code = 400

\* C6 as stated: a submission that has left Pending is never Pending again.
\* (A row keeps its id from one state to the next: ids are only reused after
\* a delete.)
C6_NeverBackToPending ==
    [][\A i \in DOMAIN Submission \cap DOMAIN Submission' :
          Submission[i].status # "Pending" => Submission'[i].status # "Pending"]_vars

\* C7 as stated: a review that is answered with an error leaves the
\* submission and feedback tables as they were, through either endpoint.
C7_FailedReviewChangesNothing ==
    \A q \in ReviewRequests :
        /\ RunReview(q).code >= 400 =>
               RunReview(q).sub = Submission /\ RunReview(q).fb = SubmissionFeedback
        /\ RunStatus(q).code >= 400 =>
               RunStatus(q).sub = Submission /\ RunStatus(q).fb = SubmissionFeedback

\* what C8 expects of a review endpoint: the transaction is committed, the
\* status is Accepted and the one feedback row holds the grade
AcceptedWithGrade(q, r) ==
    /\ r.committed
    /\ r.sub[q.sid].status = "Accepted"
    /\ FeedbackCount(r.fb, q.sid) = 1
    /\ \A row \in FeedbackRowsOf(r.fb, q.sid) : row.grade = q.p.grade

\* C8 as stated: an admin's review with target Accepted and a grade, on a
\* submission without a feedback row, goes through at one of the two review
\* endpoints when the database raises no error of its own.
C8_AdminReviewAccepted ==
    \A q \in ReviewRequests :
        /\ Role(q.u) = "admin" /\ q.commit = "ok"
        /\ q.p.status = "Accepted" /\ q.p.grade # None
        /\ q.sid \in DOMAIN Submission /\ FeedbackCount(SubmissionFeedback, q.sid) = 0
        => AcceptedWithGrade(q, RunReview(q)) \/ AcceptedWithGrade(q, RunStatus(q))

\* a committed review of a submission that has a feedback row keeps that
\* row and no other: supplied fields are overwritten, the rest is as it was
OverwritesSuppliedOnly(q, r) ==
    LET fid == FeedbackOf(SubmissionFeedback, q.sid)[1]
        old == SubmissionFeedback[fid]
    IN  /\ DOMAIN r.fb = DOMAIN SubmissionFeedback
        /\ \A f \in DOMAIN r.fb \ {fid} : r.fb[f] = SubmissionFeedback[f]
        /\ r.fb[fid].submission_id = q.sid
        /\ r.fb[fid].grade = IF q.p.grade # None THEN q.p.grade ELSE old.grade
        /\ r.fb[fid].feedback_text =
               IF q.p.feedback_text # None THEN q.p.feedback_text ELSE old.feedback_text

\* an Accepted submission whose feedback holds a grade, reviewed again by a
\* doctor with target Rejected and no grade
SecondReview(q) ==
    /\ Role(q.u) = "doctor" /\ q.commit = "ok"
    /\ q.p.status = "Rejected" /\ q.p.grade = None
    /\ q.sid \in DOMAIN Submission /\ Submission[q.sid].status = "Accepted"
    /\ \E row \in FeedbackRowsOf(SubmissionFeedback, q.sid) : row.grade # None

C10_OneFeedbackPerSubmission ==
    \A f, g \in DOMAIN SubmissionFeedback :
        f # g => SubmissionFeedback[f].submission_id # SubmissionFeedback[g].submission_id

\* a request that found no feedback row for its submission is about to
\* commit after another request has inserted one: its INSERT is refused
C10_Witness ==
    \E s \in InFlight :
        /\ req[s][1].pc = "commit" /\ req[s][1].ld.fb = None
        /\ req[s][1].op = "review_submission"
        /\ FeedbackCount(SubmissionFeedback, req[s][1].sid) = 1
        /\ CommitOf(req[s][1], "ok").code = 400
        /\ ~CommitOf(req[s][1], "ok").committed

\* C11: in every state every feedback row refers to a submission row that
\* exists; no deletion of a submission leaves its feedback row behind.
C11_FeedbackHasSubmission ==
    \A f \in DOMAIN SubmissionFeedback :
        SubmissionFeedback[f].submission_id \in DOMAIN Submission

\* the requests of the feedback endpoints, and what each would leave behind
UpsertRequests == [u : Users, body : FeedbackBodies, commit : CommitOutcomes]

FeedbackIdRequests == [u : Users, fid : FbIdsIn, body : FeedbackUpdates, commit : CommitOutcomes]

RunUpsert(q) == upsert_feedback(Submission, SubmissionFeedback, disk, q.u, q.body, q.commit)

RunUpdateFeedback(q) ==
    update_feedback(Submission, SubmissionFeedback, disk, q.u, q.fid, q.body, q.commit)

RunDeleteFeedback(q) == delete_feedback(Submission, SubmissionFeedback, disk, q.u, q.fid, q.commit)

FeedbackKept(r) == r.fb = SubmissionFeedback

\* what a feedback endpoint may do: write feedback rows, in a committed
\* request of a doctor, and nothing else
FeedbackWriteOnly(q, r) ==
    /\ r.sub = Submission /\ r.disk = disk
    /\ ~FeedbackKept(r) => r.committed /\ Role(q.u) = "doctor"

\* what a review may do to the feedback rows: write them in the committed
\* step that leaves the submission with the requested status
FeedbackWithStatus(q, r) ==
    ~FeedbackKept(r) =>
        /\ r.committed /\ Role(q.u) \in {"doctor", "admin"}
        /\ q.sid \in DOMAIN r.sub /\ r.sub[q.sid].status = q.p.status

StudentOpsKeepFeedback ==
    \A u \in Users, sid \in SubIdsIn, commit \in CommitOutcomes :
        /\ \A notes \in NotesIn :
            FeedbackKept(update_submission_notes(Submission, SubmissionFeedback, disk,
                                                 u, sid, notes, commit))
        /\ FreeUuids # {} => \A file \in FilesIn :
            /\ FeedbackKept(replace_submission_file(Submission, SubmissionFeedback, disk, now,
                                                    u, sid, file, FreshUuid, commit))
            /\ \A a \in AssignmentIdsIn, notes \in NotesIn :
                FeedbackKept(create_submission(Submission, SubmissionFeedback, disk, now,
                                               u, a, file, notes, FreshUuid, commit))
        /\ \A allow \in BOOLEAN :
            FeedbackKept(student_delete_submission(Submission, SubmissionFeedback, disk,
                                                   u, sid, allow, commit))
        /\ \A delete_file \in BOOLEAN :
            FeedbackKept(admin_delete_submission(Submission, SubmissionFeedback, disk,
                                                 u, sid, delete_file, commit))

C13_OneSubmissionPerStudentAndAssignment ==
    \A i, j \in DOMAIN Submission :
        /\ Submission[i].student_id = Submission[j].student_id
        /\ Submission[i].assignment_id = Submission[j].assignment_id
        => i = j

\* the students that do not own submission sid
OtherStudents(sid) == {u \in Students : u # Submission[sid].student_id}

Forbidden(r) == r.code = 403 /\ ~r.committed /\ Untouched(r)

\* C14: update_submission_notes, replace_submission_file and the student's
\* delete_submission, called by a student who does not own the submission,
\* answer 403 whatever the status and leave every row and every blob as it
\* was.
C14_NonOwnerIsForbidden ==
    \A sid \in DOMAIN Submission : \A u \in OtherStudents(sid), commit \in CommitOutcomes :
        /\ \A notes \in NotesIn :
            Forbidden(update_submission_notes(Submission, SubmissionFeedback, disk,
                                              u, sid, notes, commit))
        /\ FreeUuids # {} => \A file \in FilesIn :
            Forbidden(replace_submission_file(Submission, SubmissionFeedback, disk, now,
                                              u, sid, file, FreshUuid, commit))
        /\ \A allow \in BOOLEAN :
            Forbidden(student_delete_submission(Submission, SubmissionFeedback, disk,
                                                u, sid, allow, commit))

\* student 2 asks for the three changes of a Pending submission of student 1,
\* which its owner would be granted
C14_Witness ==
    \E sid \in DOMAIN Submission :
        /\ Submission[sid].student_id = 1 /\ Submission[sid].status = "Pending"
        /\ FeedbackCount(SubmissionFeedback, sid) = 0
        /\ Submission[sid].file_path \in disk /\ FreeUuids # {}
        /\ student_delete_submission(Submission, SubmissionFeedback, disk,
                                     1, sid, FALSE, "ok").code = 204
        /\ student_delete_submission(Submission, SubmissionFeedback, disk,
                                     2, sid, FALSE, "ok").code = 403
        /\ update_submission_notes(Submission, SubmissionFeedback, disk,
                                   2, sid, Some(<<"n">>), "ok").code = 403
        /\ replace_submission_file(Submission, SubmissionFeedback, disk, now,
                                   2, sid, ReportPdf, FreshUuid, "ok").code = 403

\* the student's delete_submission called by the owner of submission sid,
\* with a commit the database accepts
RunOwnerDelete(sid, allow) ==
    student_delete_submission(Submission, SubmissionFeedback, disk,
                              Submission[sid].student_id, sid, allow, "ok")

Deleted(r, sid) == r.code = 204 /\ r.committed /\ sid \notin DOMAIN r.sub

\* C15: the student's delete_submission called by the owner succeeds on
\* every Pending submission (the row is gone afterwards); on a NeedsRevision
\* submission it succeeds exactly when allow_when_needs_revision is true and
\* otherwise fails and leaves the submission and its blob in place.
C15_OwnerDeletesPendingOrNeedsRevision ==
    \A sid \in DOMAIN Submission : \A allow \in BOOLEAN :
        LET r == RunOwnerDelete(sid, allow)
        IN  /\ Submission[sid].status = "Pending" => Deleted(r, sid)
            /\ Submission[sid].status = "NeedsRevision" =>
                   IF allow THEN Deleted(r, sid) ELSE r.code >= 400 /\ Untouched(r)

\* C16: the admin's delete_submission succeeds on any existing submission,
\* whatever its status and whether or not it has been reviewed: the row is
\* gone afterwards.
C16_AdminDeletesAnySubmission ==
    \A sid \in DOMAIN Submission : \A u \in Admins, delete_file \in BOOLEAN :
        Deleted(admin_delete_submission(Submission, SubmissionFeedback, disk,
                                        u, sid, delete_file, "ok"), sid)

\* create_submission of a student, as the server would run it now
RunCreate(u, a, file, notes, commit) ==
    create_submission(Submission, SubmissionFeedback, disk, now, u, a, file, notes,
                      FreshUuid, commit)

RunReplace(u, sid, file, commit) ==
    replace_submission_file(Submission, SubmissionFeedback, disk, now, u, sid, file,
                            FreshUuid, commit)

\* an upload the handler takes up to its file checks: by a student, in the
\* window of an existing assignment, or onto the student's own open submission
CreateReachesFile(u, a) ==
    create_submission_check(u, a, ReportPdf, now) = 0

ReplaceReachesFile(u, sid) == StudentEditCheck(Submission, u, sid, TRUE) = 0

\* the answer to a rejected file: 400 for the extension, 413 for the size
\* (the extension is looked at first)
RejectedAs(file, r) ==
    /\ ExtensionRejected(_safe_name(file.filename)) => r.code = 400
    /\ ~ExtensionRejected(_safe_name(file.filename)) /\ file.size > MAX_UPLOAD_MB => r.code = 413
    /\ ExtensionRejected(_safe_name(file.filename)) \/ file.size > MAX_UPLOAD_MB => Refused(r)

\* C18: an upload that create_submission or replace_submission_file rejects
\* leaves no trace: a filename whose extension is not allowed is answered
\* 400 with nothing written to the blob store, a stream over the ceiling is
\* answered 413 with the partial file deleted, and no submission row is
\* created or changed.
C18_RejectedUploadLeavesNoTrace ==
    FreeUuids # {} =>
        \A u \in Students, file \in FilesIn, commit \in CommitOutcomes :
            /\ \A a \in AssignmentIdsIn, notes \in NotesIn :
                CreateReachesFile(u, a) => RejectedAs(file, RunCreate(u, a, file, notes, commit))
            /\ \A sid \in DOMAIN Submission :
                ReplaceReachesFile(u, sid) => RejectedAs(file, RunReplace(u, sid, file, commit))

\* a student with an open submission, inside the window: setup.exe and the
\* oversized report are refused as a new upload and as a replacement, while
\* report.pdf would be taken
C18_Witness ==
    /\ FreeUuids # {} /\ now <= Deadline
    /\ \E sid \in DOMAIN Submission :
        /\ ReplaceReachesFile(1, sid) /\ Submission[sid].file_path \in disk
        /\ RunReplace(1, sid, SetupExe, "ok").code = 400
        /\ RunReplace(1, sid, HugePdf, "ok").code = 413
        /\ RunReplace(1, sid, ReportPdf, "ok").code = 200
    /\ RunCreate(1, 1, SetupExe, None, "ok").code = 400
    /\ RunCreate(1, 1, HugePdf, None, "ok").code = 413
    /\ RunCreate(1, 1, ReportPdf, None, "ok").code = 201

\* the delete requests that may remove submission sid: the owner's, with or
\* without allow_when_needs_revision, and an admin's, with or without
\* delete_file
OwnerDeletes(sid) ==
    {student_delete_submission(Submission, SubmissionFeedback, disk,
                               Submission[sid].student_id, sid, allow, commit) :
        allow \in BOOLEAN, commit \in CommitOutcomes}

AdminDeletes(sid, delete_file) ==
    {admin_delete_submission(Submission, SubmissionFeedback, disk, u, sid, delete_file, commit) :
        u \in Admins, commit \in CommitOutcomes}

\* the file a stored reference leads to is in the root and is a file
ResolvesInsideRoot(path) == Resolve(path) \in disk /\ Resolve(path).dir = UPLOAD_DIR

\* the file a stored reference leads to was there and is gone
BlobRemoved(r, path) == Resolve(path) \in disk /\ Resolve(path) \notin r.disk

\* the file of the root that carries the last component of the reference
Leaf(path) == [dir |-> UPLOAD_DIR, name |-> path.name]

OutsideUntouched(r) ==
    /\ r.disk \subseteq disk
    /\ \A f \in disk : f.dir # UPLOAD_DIR => f \in r.disk

\* a delete either answers 204 with the row gone or changes nothing
DeletedOrUntouched(r, sid) ==
    IF r.code = 204 THEN r.committed /\ sid \notin DOMAIN r.sub ELSE Untouched(r)

ValidReview(p) ==
    /\ p.status \in {"Accepted", "Rejected", "NeedsRevision"}
    /\ p.status = "Accepted" => p.grade # None
    /\ p.status = "NeedsRevision" => p.feedback_text \notin BlankTexts

StatusRank(st) ==
    CASE st = "Accepted" -> 1 [] st = "NeedsRevision" -> 2 [] st = "Pending" -> 3
      [] st = "Rejected" -> 4

SortKey(i, order_by) ==
    CASE order_by = "submitted_at" -> Submission[i].submitted_at
      [] order_by = "status" -> StatusRank(Submission[i].status)
      [] order_by = "assignment_id" -> Submission[i].assignment_id

InRequestedOrder(page, query) ==
    \A j, k \in 1..Len(page) :
        j < k => IF query.order_dir = "asc"
                 THEN SortKey(page[j], query.order_by) <= SortKey(page[k], query.order_by)
                 ELSE SortKey(page[j], query.order_by) >= SortKey(page[k], query.order_by)

\* the caller's submissions that match every filter of the query
Matching(u, query) ==
    {i \in DOMAIN Submission :
        /\ Submission[i].student_id = u
        /\ query.status_filter # None => Submission[i].status = query.status_filter[1]
        /\ query.assignment_id # None => Submission[i].assignment_id = query.assignment_id[1]}

\* C21: list_my_submissions returns the caller's own submissions that match
\* every filter supplied (status, assignment), in the requested order, at
\* most limit rows starting at offset.
C21_ListReturnsFilteredPage ==
    \A u \in Students, query \in ListQueries :
        \A page \in list_my_submissions(Submission, u, query).pages :
            /\ \A j \in 1..Len(page) : page[j] \in Matching(u, query)
            /\ InRequestedOrder(page, query)
            /\ Len(page) <= query.limit
            /\ Len(page) >= Cardinality(Matching(u, query)) - query.offset
                   \/ Len(page) = query.limit

\* the blob a replace_submission_file in flight has written, and the blob of
\* the row it loaded
NewBlob(rq) == _public_path_for(_unique_disk_name(rq.p.uuid, _safe_name(rq.p.file.filename)))

OldBlob(rq) == rq.ld.sub.file_path

Replacing(r) == r # None /\ r[1].op = "replace_submission_file"

\* what a step of thread s does when it is a step of replace_submission_file
ReplaceStep(s) ==
    LET before == req[s]
        after  == req'[s]
    IN  /\ before = None /\ Replacing(after) =>
            \* the checks and the streaming of the new file
            /\ disk' = disk \cup {NewBlob(after[1])}
            /\ Submission' = Submission
        /\ Replacing(before) /\ before[1].pc = "commit" /\ after # None /\ after # before =>
            \* the commit went through
            /\ after[1].pc = "cleanup"
            /\ before[1].sid \in DOMAIN Submission'
            /\ Submission'[before[1].sid].file_path = NewBlob(before[1])
            /\ before[1].p.t # before[1].ld.sub.submitted_at =>
                   Submission'[before[1].sid].submitted_at = before[1].p.t
            /\ NewBlob(before[1]) \in disk'
            /\ disk' = disk
        /\ Replacing(before) /\ before[1].pc = "commit" /\ after = None =>
            \* the commit failed
            /\ Submission' = Submission
            /\ disk' = disk \ {NewBlob(before[1])}
        /\ Replacing(before) /\ before[1].pc = "cleanup" /\ after # before =>
            \* the cleanup after the commit
            /\ after = None
            /\ Submission' = Submission
            /\ disk' = disk \ {OldBlob(before[1])}

RolledBack(r) == r.code = 500 /\ ~r.committed /\ Untouched(r)

\* C23: when db.commit() fails in create_submission or in
\* replace_submission_file the request is answered 500, the rows are as
\* before (for replace the row still refers to the old blob, which still
\* exists) and the blob the request wrote is gone from the blob store.
C23_FailedCommitLeavesNoBlob ==
    FreeUuids # {} =>
        \A u \in Students, file \in FilesIn :
            /\ \A a \in AssignmentIdsIn, notes \in NotesIn :
                create_submission_check(u, a, file, now) = 0 =>
                    RolledBack(RunCreate(u, a, file, notes, "fail"))
            /\ \A sid \in DOMAIN Submission :
                replace_submission_file_check(Submission, u, sid, file) = 0 =>
                    /\ RolledBack(RunReplace(u, sid, file, "fail"))
                    /\ Submission[sid].file_path \in disk =>
                           Submission[sid].file_path \in RunReplace(u, sid, file, "fail").disk

\* a student with an open submission whose blob is on disk, inside the
\* window: the replacement and a further upload would go through with a
\* commit that succeeds and are answered 500 with one that fails
C23_Witness ==
    /\ FreeUuids # {}
    /\ \E sid \in DOMAIN Submission :
        /\ Submission[sid].file_path \in disk
        /\ RunReplace(1, sid, ScanPng, "ok").code = 200
        /\ RunReplace(1, sid, ScanPng, "fail").code = 500
        /\ RunReplace(1, sid, ScanPng, "fail").disk = disk
    /\ RunCreate(1, 1, ReportPdf, None, "ok").code = 201
    /\ RunCreate(1, 1, ReportPdf, None, "fail").code = 500
    /\ RunCreate(1, 1, ReportPdf, None, "fail").disk = disk

\* two reviews of one submission in flight that have both read the
\* submission and its feedback
Reviewing(s) ==
    /\ req[s] # None /\ req[s][1].pc = "commit"
    /\ req[s][1].op \in {"review_submission", "update_submission_status"}

\* the whole handler of a request, run on the tables S and F
RunOn(S, F, rq) ==
    IF rq.op = "review_submission"
    THEN review_submission(S, F, disk, rq.u, rq.sid, rq.p, "ok")
    ELSE update_submission_status(S, F, disk, rq.u, rq.sid, rq.p, "ok")

\* C24: when two reviews of one submission have both read the submission
\* and its feedback and then both commit, the final status is the target of
\* the one that commits last, and status and feedback are what the two
\* reviews leave when run one after the other in the order of their commits.
C24_LastWriteWins ==
    \A s1, s2 \in Sessions :
        s1 # s2 /\ Reviewing(s1) /\ Reviewing(s2) /\ req[s1][1].sid = req[s2][1].sid =>
            LET first  == CommitOn(Submission, SubmissionFeedback, disk, req[s1][1], "ok")
                second == CommitOn(first.sub, first.fb, first.disk, req[s2][1], "ok")
                one    == RunOn(Submission, SubmissionFeedback, req[s1][1])
                two    == RunOn(one.sub, one.fb, req[s2][1])
            IN  first.committed /\ second.committed =>
                    /\ second.sub[req[s2][1].sid].status = req[s2][1].p.status
                    /\ second.sub = two.sub /\ second.fb = two.fb

\* a request answered 200 after its commit
Succeeded(r) == r.committed /\ r.code = 200

\* the row sid differs from the one on record in the fields named at most;
\* every other row and every feedback row is the one on record
OnlyFieldsChanged(r, sid, fields) ==
    /\ r.fb = SubmissionFeedback
    /\ DOMAIN r.sub = DOMAIN Submission
    /\ \A x \in DOMAIN Submission \ {sid} : r.sub[x] = Submission[x]
    /\ \A k \in DOMAIN Submission[sid] \ fields : r.sub[sid][k] = Submission[sid][k]

\* C25: a successful replace_submission_file changes the original filename,
\* the blob reference, the file kind and the submission timestamp of the
\* submission only, and a successful update_submission_notes the notes only:
\* status, student, assignment and the feedback rows stay, a NeedsRevision
\* submission is NeedsRevision after the resubmission.
C25_ReplaceAndNotesKeepTheRest ==
    \A sid \in DOMAIN Submission : \A u \in Users, commit \in CommitOutcomes :
        /\ FreeUuids # {} => \A file \in FilesIn :
            LET r == RunReplace(u, sid, file, commit)
            IN  Succeeded(r) =>
                    /\ OnlyFieldsChanged(r, sid, {"original_filename", "file_path",
                                                  "file_type", "submitted_at"})
                    /\ r.sub[sid].status = Submission[sid].status
        /\ \A notes \in NotesIn :
            LET r == update_submission_notes(Submission, SubmissionFeedback, disk,
                                             u, sid, notes, commit)
            IN  Succeeded(r) => OnlyFieldsChanged(r, sid, {"student_notes"}) /\ r.disk = disk

\* a NeedsRevision submission with its feedback row gets a new file and new
\* notes from its owner
C25_Witness ==
    \E sid \in DOMAIN Submission :
        /\ Submission[sid].status = "NeedsRevision"
        /\ FeedbackRowsOf(SubmissionFeedback, sid) # {}
        /\ FreeUuids # {} /\ now > Submission[sid].submitted_at
        /\ LET r == RunReplace(1, sid, ScanPng, "ok")
           IN  /\ Succeeded(r) /\ r.sub[sid].status = "NeedsRevision"
               /\ r.sub[sid].file_path # Submission[sid].file_path
               /\ r.sub[sid].submitted_at = now
        /\ LET r == update_submission_notes(Submission, SubmissionFeedback, disk,
                                            1, sid, Some(<<"n">>), "ok")
           IN  Succeeded(r) /\ r.sub[sid].student_notes # Submission[sid].student_notes

\* the doctors other than the one recorded as author of a feedback row
OtherDoctors(row) == {u \in Doctors : row.doctor_id # Some(u)}

Authored(row) == row.doctor_id \notin {None, Some(0)}

\* C26: a feedback row with an authoring doctor on record is not changed or
\* deleted by another doctor: upsert_feedback, update_feedback and
\* delete_feedback of another doctor are answered 403, so is every
\* review_submission and update_submission_status of another doctor that
\* supplies a grade or a text, and the row stays as it is.
C26_OnlyAuthorChangesFeedback ==
    \A f \in DOMAIN SubmissionFeedback :
        Authored(SubmissionFeedback[f]) /\ SubmissionFeedback[f].submission_id \in DOMAIN Submission =>
            \A u \in OtherDoctors(SubmissionFeedback[f]) :
                /\ \A q \in UpsertRequests :
                       q.u = u /\ q.body.submission_id = SubmissionFeedback[f].submission_id =>
                           Forbidden(RunUpsert(q))
                /\ \A q \in FeedbackIdRequests :
                       q.u = u /\ q.fid = f =>
                           Forbidden(RunUpdateFeedback(q)) /\ Forbidden(RunDeleteFeedback(q))
                /\ \A q \in ReviewRequests :
                       q.u = u /\ q.sid = SubmissionFeedback[f].submission_id =>
                           /\ FeedbackKept(RunReview(q)) /\ FeedbackKept(RunStatus(q))
                           /\ ValidReview(q.p) /\ SuppliesFeedback(q.p) =>
                                  Forbidden(RunReview(q)) /\ Forbidden(RunStatus(q))

\* the student's requests that have passed the status check and not yet
\* committed
AwaitingCommit(s) ==
    /\ req[s] # None /\ req[s][1].pc = "commit"
    /\ req[s][1].op \in {"update_submission_notes", "replace_submission_file",
                          "student_delete_submission"}

\* C27: a student's update_submission_notes, replace_submission_file or
\* delete_submission that has passed its status check changes no row when
\* the status on record at its commit is Accepted or Rejected, whatever
\* review has committed since the check.
C27_NoStudentChangeOnClosedSubmission ==
    \A s \in Sessions :
        AwaitingCommit(s) /\ req[s][1].sid \in Closed =>
            StudentCommitOf(req[s][1], "ok").sub = Submission

\* C28: every Accepted submission has a feedback row that holds a grade.
C28_AcceptedHasGrade ==
    \A sid \in DOMAIN Submission :
        Submission[sid].status = "Accepted" =>
            \E row \in FeedbackRowsOf(SubmissionFeedback, sid) : row.grade # None

\* C29: every submission row references a blob that is in the upload
\* directory, between the requests and while create, replace and delete
\* requests are in flight.
C29_EveryRowHasItsBlob ==
    \A sid \in DOMAIN Submission : Submission[sid].file_path \in disk

\* all requests are over and a submission whose file was replaced references
\* its blob, while the blob of another replacement is left behind (two
\* replacements side by side, or a delete that kept the file)
C29_Witness ==
    /\ \A s \in Sessions : req[s] = None
    /\ \E sid \in DOMAIN Submission :
        /\ Submission[sid].original_filename = _safe_name(ScanPng.filename)
        /\ Submission[sid].file_path \in disk
        /\ \E other \in disk \ {Submission[sid].file_path} :
               other.name.safe_name = _safe_name(ScanPng.filename)

\* C30: no submission carries a submission timestamp later than the
\* deadline of its assignment (the deadline of the fixture never changes).
C30_SubmittedBeforeDeadline ==
    \A sid \in DOMAIN Submission :
        Submission[sid].submitted_at <= Assignment[Submission[sid].assignment_id].deadline

====
